---- MODULE Spec2Model ----
(***************************************************************************)
(* Model of the motor odometry node (tas_odometry/src/motor_odometry.cpp). *)
(*                                                                         *)
(* Numbers.                                                                *)
(*  - A double is a record [k, n, d]: k = "fin" is the rational n/d in     *)
(*    lowest terms (d > 0), k = "inf" is the infinity of sign n, k = "nan" *)
(*    is NaN.  Division follows IEEE 754 for zero divisors; rounding of    *)
(*    finite quotients is not modelled.                                    *)
(*  - Time is counted in clock units of 1/10 s.  A ros::Time is a record   *)
(*    [sec, nsec]; a time held in a double is the number of units.         *)
(*  - int32_t values are integers in -2^31 .. 2^31-1.                      *)
(*  - A number too wide for TLC's integers (uint32_t, unbounded sums and   *)
(*    counts) is a record [hi, lo] that stands for hi * 65536 + lo with    *)
(*    lo in 0..65535.                                                      *)
(***************************************************************************)
EXTENDS Integers, Naturals, Sequences, FiniteSets, TLC

\* ------------------------------------------------------------------ bounds
\* Number of encoder messages the environment sends.
MaxEvents == 2

\* Last value of the clock, in units of 1/10 s.
MaxTime == 3

\* ------------------------------------------------------- program constants
INT32_MAX == 2147483647

INT32_MIN == -INT32_MAX - 1

\* ------------------------------------------------------------ wide numbers
W(x) == [hi |-> x \div 65536, lo |-> x % 65536]

WAdd(a, b) ==
  LET s == a.lo + b.lo
  IN  [hi |-> a.hi + b.hi + (s \div 65536), lo |-> s % 65536]

WLess(a, b) == a.hi < b.hi \/ (a.hi = b.hi /\ a.lo < b.lo)

\* uint32_t: wide numbers with hi in 0..65535.
U32Mod(w) == [hi |-> w.hi % 65536, lo |-> w.lo]

\* twist.header.seq++ on a uint32_t
SeqIncDrop(s) == s

SeqIncTwice(s) == U32Mod(WAdd(s, W(2)))

SeqInc(s) == U32Mod(WAdd(s, W(1)))

\* ---------------------------------------------------------------- doubles
Abs(x) == IF x < 0 THEN -x ELSE x

\* Euclid's algorithm on the pair p
gcd[p \in Nat \X Nat] == IF p[2] = 0 THEN p[1] ELSE gcd[<<p[2], p[1] % p[2]>>]

GCD(a, b) == gcd[<<a, b>>]

Fin(n, d) ==
  LET g == GCD(Abs(n), Abs(d))
      s == IF d < 0 THEN -1 ELSE 1
  IN  [k |-> "fin", n |-> s * (n \div g), d |-> s * (d \div g)]

Inf(s) == [k |-> "inf", n |-> s, d |-> 0]

NaN == [k |-> "nan", n |-> 0, d |-> 0]

Zero == Fin(0, 1)

\* (double) i for an integer i
ToDouble(i) == Fin(i, 1)

Sign(x) == IF x.n < 0 THEN -1 ELSE 1

IsZero(x) == x.k = "fin" /\ x.n = 0

IsFinite(x) == x.k = "fin"

Doubles == [k : {"fin", "inf", "nan"}, n : Int, d : Int]

\* x / y on doubles, for the pair p = <<x, y>>.  The zeros that occur are
\* all +0.0.
ddiv[p \in Doubles \X Doubles] ==
  LET x == p[1]
      y == p[2]
  IN  IF x.k = "nan" \/ y.k = "nan" THEN NaN
      ELSE IF x.k = "inf" THEN (IF y.k = "inf" THEN NaN ELSE Inf(x.n * Sign(y)))
      ELSE IF y.k = "inf" THEN Zero
      ELSE IF y.n = 0 THEN (IF x.n = 0 THEN NaN ELSE Inf(Sign(x)))
      ELSE Fin(x.n * y.d, x.d * y.n)

DDiv(x, y) == ddiv[<<x, y>>]

\* ------------------------------------------------------------------- time
\* The ros::Time that reads u clock units.
Time(u) == [sec |-> u \div 10, nsec |-> (u % 10) * 100000000]

\* ros::Time::toSec(), as a number of clock units
toSecWholeSeconds(t) == t.sec * 10

toSec(t) == t.sec * 10 + (t.nsec \div 100000000)

\* ------------------------------------------------------------ int32_t sum
Overflows(a, b) ==
  \/ b > 0 /\ a > INT32_MAX - b
  \/ b < 0 /\ a < INT32_MIN - b

\* a + b reduced into the int32_t range (two's complement)
Wrap32(a, b) ==
  IF b > 0 /\ a > INT32_MAX - b THEN (a - INT32_MAX - 1) + (b - INT32_MAX - 1)
  ELSE IF b < 0 /\ a < INT32_MIN - b THEN (a + INT32_MAX + 1) + (b + INT32_MAX + 1)
  ELSE a + b

\* --------------------------------------------------------------- messages
\* tas_odometry/Encoder messages the environment sends.
Ev(t, d) == [encoder_ticks |-> t, duration |-> d]

NoEvent == Ev(0, 0)

Events == { Ev(310, 1000000), Ev(-155, 500000), Ev(INT32_MAX, 0) }

\* Contents of the parameter server.
Cfg(t, f, u, d) ==
  [ticks_per_meter |-> t, frame_id |-> f, uncertainty_fixed |-> u,
   deadline_timeout |-> d]

\* n.param defaults: 310, "base_link", 1e-3, 0.1 s (1 clock unit)
DefaultParams == Cfg(310, "base_link", Fin(1, 1000), 1)

Params ==
  { DefaultParams,
    Cfg(155, "odom", Fin(1, 100), 2),
    Cfg(0, "base_link", Fin(1, 1000), 1) }

\* A default-constructed geometry_msgs::TwistWithCovarianceStamped.
EmptyTwist ==
  [stamp |-> Time(0), seq |-> W(0), frame_id |-> "",
   linear |-> [x |-> Zero, y |-> Zero, z |-> Zero],
   angular |-> [x |-> Zero, y |-> Zero, z |-> Zero],
   covariance |-> [i \in 0..35 |-> Zero]]

\* main, lines 86-90: the covariance of the message template
CovarianceNoX(u) ==
  LET c0 == [i \in 0..35 |-> Zero]
  IN  [i \in 0..35 |-> IF i % 7 = 0 THEN ToDouble(999) ELSE c0[i]]

Covariance(u) ==
  LET c0 == [i \in 0..35 |-> Zero]
      c1 == [i \in 0..35 |-> IF i % 7 = 0 THEN ToDouble(999) ELSE c0[i]]
  IN  [c1 EXCEPT ![0] = u]

\* encoder_callback, lines 57-62: the velocity of one encoder message
VelocityNoScale(e, tpm) ==
  DDiv(DDiv(ToDouble(e.encoder_ticks), ToDouble(tpm)), ToDouble(e.duration))

Velocity(e, tpm) ==
  LET change_meter == DDiv(ToDouble(e.encoder_ticks), ToDouble(tpm))
      change_time  == DDiv(ToDouble(e.duration), ToDouble(1000000))
  IN  DDiv(change_meter, change_time)

\* ------------------------------------------------------------------ state
VARIABLES
  pc,                 \* position of main: "main", "loop", "spin", "watchdog",
                      \*   "done" (returned), "aborted" (trapped)
  params,             \* the parameter server
  frame_id, ticks_per_meter, uncertainty_fixed, deadline_timeout,
  twist,              \* the message template
  encoder_abs,
  last_publish_time,
  now,                \* the clock, in units
  queue,              \* messages waiting in the subscriber queue
  out,                \* messages published, oldest first
  sent,               \* number of encoder messages sent so far
  tickSum,            \* wide: sum of encoder_ticks of the messages handled
  handled,            \* number of encoder messages handled
  idle,               \* a watchdog check has passed without a publish since
                      \*   the last twist message was published
  published           \* wide: number of twist messages published since startup

vars ==
  <<pc, params, frame_id, ticks_per_meter, uncertainty_fixed,
    deadline_timeout, twist, encoder_abs, last_publish_time, now, queue,
    out, sent, tickSum, handled, idle, published>>

config == <<params, frame_id, ticks_per_meter, uncertainty_fixed, deadline_timeout>>

\* One entry of out.  by is the publishing function, ev the encoder message
\* it handled (NoEvent for main), lpt the value of last_publish_time.
Odom(m, by, ev, lpt) ==
  [topic |-> "motor_odom", msg |-> m, by |-> by, ev |-> ev, lpt |-> lpt]

EncAbs(v, ev, lpt) ==
  [topic |-> "motor_encoder_abs", msg |-> v, by |-> "encoder_callback",
   ev |-> ev, lpt |-> lpt]

\* ------------------------------------------------------------------- Init
\* Static initialisation, lines 25-37, with any parameter server.
InitStart ==
  /\ pc = "main"
  /\ params \in Params
  /\ frame_id = ""
  /\ ticks_per_meter = 0
  /\ uncertainty_fixed = Zero
  /\ deadline_timeout = 0
  /\ twist = EmptyTwist
  /\ encoder_abs = 0
  /\ last_publish_time = 0
  /\ now = 0
  /\ queue = <<>>
  /\ out = <<>>
  /\ sent = 0
  /\ tickSum = W(0)
  /\ handled = 0
  /\ idle = FALSE
  /\ published = W(0)

\* The node after a long run: default parameters, no encoder message yet,
\* and 2^32 - 2 watchdog publishes behind it, the last one at the current
\* clock reading (the clock is counted from that reading on).  out holds
\* the messages published from here on.
LongRun == [hi |-> 65535, lo |-> 65534]

InitLongRun ==
  /\ pc = "loop"
  /\ params = DefaultParams
  /\ frame_id = DefaultParams.frame_id
  /\ ticks_per_meter = DefaultParams.ticks_per_meter
  /\ uncertainty_fixed = DefaultParams.uncertainty_fixed
  /\ deadline_timeout = DefaultParams.deadline_timeout
  /\ twist = [EmptyTwist EXCEPT !.seq = LongRun,
                                !.frame_id = DefaultParams.frame_id,
                                !.covariance = Covariance(DefaultParams.uncertainty_fixed)]
  /\ encoder_abs = 0
  /\ last_publish_time = 0
  /\ now = 0
  /\ queue = <<>>
  /\ out = <<>>
  /\ sent = 0
  /\ tickSum = W(0)
  /\ handled = 0
  /\ idle = FALSE
  /\ published = LongRun

Init == InitStart \/ InitLongRun

\* ---------------------------------------------------------------- actions
\* The clock advances by one unit.  The node reads the clock at lines 44,
\* 105 and 108 only, all of them between the start of spinOnce and the end
\* of the watchdog check: time that passes elsewhere in the loop is time
\* that passes at the start of spinOnce.
Tick ==
  /\ pc = "spin"
  /\ now < MaxTime
  /\ now' = now + 1
  /\ UNCHANGED <<pc, config, twist, encoder_abs, last_publish_time,
                 queue, out, sent, tickSum, handled, idle, published>>

\* A publisher sends an encoder message; the subscription (line 93) queues
\* it.  spinOnce calls the callbacks of the messages queued when it starts,
\* so a message that arrives later in the iteration is one that arrives at
\* the next loop test.
Arrive(e) ==
  /\ pc = "loop"
  /\ sent < MaxEvents
  /\ sent' = sent + 1
  /\ queue' = Append(queue, e)
  /\ UNCHANGED <<pc, config, twist, encoder_abs, last_publish_time,
                 now, out, tickSum, handled, idle, published>>

\* main, lines 73-95: parameters, message template, subscriber, publishers.
Startup ==
  /\ pc = "main"
  /\ ticks_per_meter' = params.ticks_per_meter
  /\ frame_id' = params.frame_id
  /\ uncertainty_fixed' = params.uncertainty_fixed
  /\ deadline_timeout' = params.deadline_timeout
  /\ twist' = [twist EXCEPT !.seq = W(0),
                            !.frame_id = params.frame_id,
                            !.covariance = Covariance(params.uncertainty_fixed)]
  /\ pc' = "loop"
  /\ UNCHANGED <<params, encoder_abs, last_publish_time, now, queue,
                 out, sent, tickSum, handled, idle, published>>

\* main, line 99: ros::ok() holds and spinOnce starts (line 102).
LoopTest ==
  /\ pc = "loop"
  /\ pc' = "spin"
  /\ UNCHANGED <<config, twist, encoder_abs, last_publish_time, now,
                 queue, out, sent, tickSum, handled, idle, published>>

\* main, lines 99 and 117: the node was shut down, ros::ok() fails.
LoopExit ==
  /\ pc = "loop"
  /\ pc' = "done"
  /\ UNCHANGED <<config, twist, encoder_abs, last_publish_time, now,
                 queue, out, sent, tickSum, handled, idle, published>>

\* encoder_callback, lines 53-55 and 68: what one call publishes, in order
CallbackOutEstimateFirst(sum, tw, e, t) ==
  <<Odom(tw, "encoder_callback", e, t), EncAbs(sum, e, t)>>

CallbackOut(sum, tw, e, t) ==
  <<EncAbs(sum, e, t), Odom(tw, "encoder_callback", e, t)>>

\* encoder_callback, lines 41-70, called by spinOnce for the oldest message.
\* The sum at line 52 is undefined when it overflows: the build either
\* wraps it or traps.
encoder_callback ==
  /\ pc = "spin"
  /\ queue # <<>>
  /\ LET encoder_data == Head(queue)
         stamp    == Time(now)
         time_now == toSec(stamp)
         sum      == Wrap32(encoder_abs, encoder_data.encoder_ticks)
         vel      == Velocity(encoder_data, ticks_per_meter)
         header   == [twist EXCEPT !.stamp = stamp, !.seq = SeqInc(twist.seq)]
         tw       == [header EXCEPT !.linear.x = vel]
     IN  /\ queue' = Tail(queue)
         /\ last_publish_time' = time_now
         /\ \/ /\ encoder_abs' = sum
               /\ twist' = tw
               /\ out' = out \o CallbackOut(sum, tw, encoder_data, time_now)
               /\ handled' = handled + 1
               /\ tickSum' = WAdd(tickSum, W(encoder_data.encoder_ticks))
               /\ idle' = FALSE
               /\ published' = WAdd(published, W(1))
               /\ pc' = pc
            \/ /\ Overflows(encoder_abs, encoder_data.encoder_ticks)
               /\ twist' = header
               /\ pc' = "aborted"
               /\ UNCHANGED <<encoder_abs, out, handled, tickSum, idle, published>>
  /\ UNCHANGED <<config, now, sent>>

\* spinOnce returns, line 102.
SpinDone ==
  /\ pc = "spin"
  /\ queue = <<>>
  /\ pc' = "watchdog"
  /\ UNCHANGED <<config, twist, encoder_abs, last_publish_time, now,
                 queue, out, sent, tickSum, handled, idle, published>>

\* main, lines 105-112: the watchdog check.  The clock is read at line 105
\* and again at line 108; it may advance in between.
WatchdogFiresAlways(time_now) == TRUE

WatchdogFiresStale(time_now) == time_now - 0 > deadline_timeout

WatchdogFiresAtDeadline(time_now) ==
  time_now - last_publish_time >= deadline_timeout

WatchdogFiresOnceArmed(time_now) ==
  last_publish_time > 0 /\ time_now - last_publish_time > deadline_timeout

WatchdogFires(time_now) == time_now - last_publish_time > deadline_timeout

\* main, lines 108-110: the message of a firing check, stamped t
WatchdogTwistKeepsVelocity(t) ==
  [twist EXCEPT !.stamp = t, !.seq = SeqInc(twist.seq)]

WatchdogTwistFromEmpty(t) ==
  [EmptyTwist EXCEPT !.stamp = t, !.seq = SeqInc(twist.seq),
                     !.covariance = twist.covariance]

WatchdogTwistOldStamp(t) ==
  [twist EXCEPT !.seq = SeqInc(twist.seq), !.linear.x = Zero]

WatchdogTwist(t) ==
  [twist EXCEPT !.stamp = t, !.seq = SeqInc(twist.seq), !.linear.x = Zero]

\* main, line 111: what a firing check publishes
WatchdogOutWithAbs(tw, time_now) ==
  <<EncAbs(encoder_abs, NoEvent, time_now), Odom(tw, "main", NoEvent, time_now)>>

WatchdogOut(tw, time_now) == <<Odom(tw, "main", NoEvent, time_now)>>

WatchdogCheck ==
  /\ pc = "watchdog"
  /\ LET time_now == toSec(Time(now))
     IN  IF WatchdogFires(time_now)
         THEN /\ \E d \in 0..1 :
                   /\ now + d <= MaxTime
                   /\ now' = now + d
                   /\ LET tw == WatchdogTwist(Time(now + d))
                      IN  /\ twist' = tw
                          /\ out' = out \o WatchdogOut(tw, time_now)
              /\ last_publish_time' = time_now
              /\ idle' = FALSE
              /\ published' = WAdd(published, W(1))
         ELSE /\ idle' = TRUE
              /\ UNCHANGED <<now, twist, out, last_publish_time, published>>
  /\ pc' = "loop"
  /\ UNCHANGED <<config, encoder_abs, queue, sent, tickSum, handled>>

Next ==
  \/ Tick
  \/ \E e \in Events : Arrive(e)
  \/ Startup
  \/ LoopTest
  \/ LoopExit
  \/ encoder_callback
  \/ SpinDone
  \/ WatchdogCheck

Spec == Init /\ [][Next]_vars

\* One step of the node's single thread while it runs.
MainStep == Startup \/ LoopTest \/ encoder_callback \/ SpinDone \/ WatchdogCheck

\* The thread is never suspended for ever; messages, the clock and the
\* shutdown request are the environment's.
Fairness == WF_vars(MainStep)

LiveSpec == Init /\ [][Next]_vars /\ Fairness

\* ----------------------------------------------------------------- claims
IsOdom(m) == m.topic = "motor_odom"

IsAbs(m) == m.topic = "motor_encoder_abs"

\* The twist messages, and the absolute counts, published so far.
Odoms == SelectSeq(out, IsOdom)

Abss == SelectSeq(out, IsAbs)

\* Wide sum of the encoder_ticks of the first k handled encoder messages,
\* read off the absolute-count channel's entries.
RECURSIVE TicksOfFirst(_)
TicksOfFirst(k) ==
  IF k = 0 THEN W(0)
  ELSE WAdd(TicksOfFirst(k - 1), W(Abss[k].ev.encoder_ticks))

\* The run started at static initialisation (not after a long run).
FromStartup == published = W(Len(Odoms))

\* C1: after N handled encoder messages encoder_abs is the sum of their N
\* encoder_ticks, and the k-th value sent on motor_encoder_abs is the sum of
\* the first k.
C1_AbsoluteCountIsSum ==
  FromStartup =>
    /\ W(encoder_abs) = tickSum
    /\ \A k \in 1..Len(Abss) : W(Abss[k].msg) = TicksOfFirst(k)

\* last_publish_time as the i-th twist message found it.
LptBefore(i) == IF i = 1 THEN 0 ELSE Odoms[i - 1].lpt

\* C2: a watchdog publish happens only when the clock reading of the check
\* is more than deadline_timeout past the last_publish_time the previous
\* publish left, so between two publishes of the watchdog (and after any
\* publish) the clock has advanced by more than deadline_timeout.
C2_OnePublishPerCrossing ==
  \A i \in 1..Len(Odoms) :
    Odoms[i].by = "main" => Odoms[i].lpt - LptBefore(i) > deadline_timeout

\* A watchdog check has published a zero velocity and a later check, made
\* before the next deadline, has published nothing.
C2_Witness ==
  /\ deadline_timeout > 0
  /\ Odoms # <<>>
  /\ Odoms[Len(Odoms)].by = "main"
  /\ idle
  /\ pc = "loop"
  /\ now > last_publish_time

\* The twist message published last.
Latest == Odoms[Len(Odoms)]

\* The latest published estimate is nonzero and older than deadline_timeout.
Stale ==
  /\ Odoms # <<>>
  /\ ~IsZero(Latest.msg.linear.x)
  /\ now - toSec(Latest.msg.stamp) > deadline_timeout

Stopped == pc \in {"done", "aborted"}

\* C3 as claimed: when the latest estimate is nonzero and older than
\* deadline_timeout, the next estimate published carries velocity zero.
C3_NextIsZeroVelocity ==
  [][(Stale /\ Len(Odoms') > Len(Odoms)) => IsZero(Latest'.msg.linear.x)]_vars

\* ticks * 10^6 / (tpm * duration), for duration > 0 and tpm # 0
ExpectedVelocity(e, tpm) ==
  LET g == GCD(1000000, e.duration)
  IN  Fin(e.encoder_ticks * (1000000 \div g), tpm * (e.duration \div g))

\* C3: when the latest estimate is nonzero and older than deadline_timeout,
\* the next estimate published is a zero-velocity estimate of the watchdog
\* or the estimate of an encoder message handled at that moment, stamped
\* with the current time; and unless the node stops, one is published.
C3_RefreshedWhenStale ==
  /\ [][(Stale /\ Len(Odoms') > Len(Odoms)) =>
          \/ Latest'.by = "main" /\ IsZero(Latest'.msg.linear.x)
          \/ /\ Latest'.by = "encoder_callback"
             /\ toSec(Latest'.msg.stamp) = now
             /\ Latest'.ev = Head(queue)]_vars
  /\ (Stale ~> (~Stale \/ Stopped))

\* A stale nonzero estimate has been followed by the watchdog's zero.
C3_Witness ==
  /\ Len(Odoms) >= 2
  /\ Latest.by = "main"
  /\ IsZero(Latest.msg.linear.x)
  /\ ~IsZero(Odoms[Len(Odoms) - 1].msg.linear.x)
  /\ Latest.lpt - toSec(Odoms[Len(Odoms) - 1].msg.stamp) > deadline_timeout
  /\ deadline_timeout > 0

U32Max == [hi |-> 65535, lo |-> 65535]

\* C4 as claimed: of two published estimates the later carries the
\* strictly greater header.seq.
C4_SeqStrictlyIncreasing ==
  \A i, j \in 1..Len(Odoms) :
    i < j => WLess(Odoms[i].msg.seq, Odoms[j].msg.seq)

\* C4: of two consecutive published estimates the later carries the
\* strictly greater header.seq, unless the earlier carries 2^32 - 1: then
\* the later carries 0.
C4_SeqIncreasesUntilWrap ==
  \A i \in 1..(Len(Odoms) - 1) :
    LET a == Odoms[i].msg.seq
        b == Odoms[i + 1].msg.seq
    IN  IF a = U32Max THEN b = W(0) ELSE WLess(a, b)

\* An event-triggered and a watchdog-triggered estimate on either side of
\* the wrap.
C4_Witness ==
  \E i \in 1..(Len(Odoms) - 1) :
    /\ Odoms[i].msg.seq = U32Max
    /\ Odoms[i + 1].msg.seq = W(0)
    /\ Odoms[i].by # Odoms[i + 1].by

\* C5: an encoder message with duration 0 gets no estimate, or one with a
\* finite linear.x.
C5_ZeroDurationFinite ==
  FromStartup =>
    \A i \in 1..Len(Odoms) :
      (Odoms[i].by = "encoder_callback" /\ Odoms[i].ev.duration = 0)
        => IsFinite(Odoms[i].msg.linear.x)

\* C6: for an encoder message with duration > 0 and ticks_per_meter > 0 the
\* estimate carries linear.x = (ticks / ticks_per_meter) / (duration / 10^6):
\* linear.x * ticks_per_meter * duration = ticks * 10^6; (310, 1000000) at
\* 310 ticks per meter gives 1 and (-155, 500000) gives -1.
C6_VelocityOfEvent ==
  \A i \in 1..Len(Odoms) :
    LET e == Odoms[i].ev
        x == Odoms[i].msg.linear.x
    IN  (Odoms[i].by = "encoder_callback" /\ e.duration > 0 /\ ticks_per_meter > 0)
          => /\ IsFinite(x)
             /\ x = ExpectedVelocity(e, ticks_per_meter)
             /\ Abs(e.encoder_ticks) <= 1000
                  => x.n * ticks_per_meter * e.duration
                       = e.encoder_ticks * 1000000 * x.d
             /\ (e = Ev(310, 1000000) /\ ticks_per_meter = 310) => x = ToDouble(1)
             /\ (e = Ev(-155, 500000) /\ ticks_per_meter = 310) => x = ToDouble(-1)

\* Both examples have been published at 310 ticks per meter.
C6_Witness ==
  /\ ticks_per_meter = 310
  /\ \E i \in 1..Len(Odoms) :
       Odoms[i].ev = Ev(310, 1000000) /\ Odoms[i].msg.linear.x = ToDouble(1)
  /\ \E i \in 1..Len(Odoms) :
       Odoms[i].ev = Ev(-155, 500000) /\ Odoms[i].msg.linear.x = ToDouble(-1)

\* C7: in every published estimate the 6x6 covariance is 0 off the
\* diagonal, 999 on the diagonal for y, z, roll, pitch, yaw, and the
\* configured uncertainty_fixed for x.
C7_CovarianceLayout ==
  LET layout == [c \in 0..35 |->
                   IF c \div 6 # c % 6 THEN Zero
                   ELSE IF c = 0 THEN params.uncertainty_fixed
                   ELSE ToDouble(999)]
  IN  \A i \in 1..Len(Odoms) : Odoms[i].msg.covariance = layout

\* An event-triggered and a watchdog-triggered estimate have been published
\* with an uncertainty_fixed other than the default.
C7_Witness ==
  /\ params.uncertainty_fixed # DefaultParams.uncertainty_fixed
  /\ \E i, j \in 1..Len(Odoms) :
       Odoms[i].by = "main" /\ Odoms[j].by = "encoder_callback"

\* The run of C8: started at static initialisation with the default
\* parameters, and the first encoder message sent is (310, 1000000).
Scenario ==
  /\ FromStartup
  /\ params = DefaultParams
  /\ sent >= 1
  /\ pc # "aborted"
  /\ (IF Abss # <<>> THEN Abss[1].ev ELSE Head(queue)) = Ev(310, 1000000)

IsZeroEstimate(m) == IsOdom(m) /\ m.by = "main" /\ IsZero(m.msg.linear.x)

\* The messages after the k-th are zero-velocity estimates of the watchdog,
\* each more than deadline_timeout after the publish before it.
OnlyTimeoutsAfter(k) ==
  \A i \in (k + 1)..Len(out) :
    /\ IsZeroEstimate(out[i])
    /\ out[i].lpt - out[i - 1].lpt > deadline_timeout

\* C8 as claimed: the first two messages are the absolute count 310 and the
\* estimate with linear.x = 1; with no further encoder message, what
\* follows is one zero-velocity estimate per timeout and the count stays 310.
C8_FirstMessagesAreTheEvents ==
  Scenario =>
    /\ Len(out) >= 1 => (IsAbs(out[1]) /\ out[1].msg = 310)
    /\ Len(out) >= 2 => (IsOdom(out[2]) /\ out[2].msg.linear.x = ToDouble(1))
    /\ (sent = 1 /\ handled = 1) => (encoder_abs = 310 /\ OnlyTimeoutsAfter(2))

\* Number of messages published before the first absolute count.
RECURSIVE Before(_)
Before(i) == IF i > Len(out) \/ IsAbs(out[i]) THEN i - 1 ELSE Before(i + 1)

\* C8: after the zero-velocity estimates that watchdog checks publish
\* before the encoder message is handled, the messages are the absolute
\* count 310 and the estimate with linear.x = 1; with no further encoder
\* message, what follows is one zero-velocity estimate per timeout and the
\* count stays 310.
C8_EndToEnd ==
  Scenario =>
    LET k == Before(1)
    IN  /\ \A i \in 1..k : IsZeroEstimate(out[i])
        /\ handled >= 1 =>
             /\ IsAbs(out[k + 1]) /\ out[k + 1].msg = 310
             /\ IsOdom(out[k + 2]) /\ out[k + 2].msg.linear.x = ToDouble(1)
        /\ (sent = 1 /\ handled = 1) =>
             (encoder_abs = 310 /\ OnlyTimeoutsAfter(k + 2))

\* The count, the estimate and then one timeout have been published.
C8_Witness ==
  /\ Scenario
  /\ sent = 1
  /\ Len(out) = 3
  /\ IsAbs(out[1]) /\ out[1].msg = 310
  /\ IsOdom(out[2]) /\ out[2].msg.linear.x = ToDouble(1)
  /\ IsZeroEstimate(out[3])
  /\ encoder_abs = 310

\* C9: a watchdog check, firing or not, leaves encoder_abs alone and sends
\* nothing on motor_encoder_abs.
C9_WatchdogLeavesCount ==
  [][pc = "watchdog" => (encoder_abs' = encoder_abs /\ Abss' = Abss)]_vars

\* The watchdog has fired after encoder messages were counted.
C9_Witness ==
  /\ encoder_abs # 0
  /\ Abss # <<>>
  /\ Latest.by = "main"
  /\ Abss[Len(Abss)].msg = encoder_abs

\* C10: with ticks_per_meter <= 0 or deadline_timeout <= 0 on the parameter
\* server, main never gets past its setup: it does not subscribe, handles
\* no encoder message and publishes nothing.
C10_FailFast ==
  (params.ticks_per_meter <= 0 \/ params.deadline_timeout <= 0)
    => (pc = "main" /\ queue = <<>> /\ handled = 0 /\ out = <<>>)

\* The estimates that encoder_callback published.
IsEventOdom(m) == IsOdom(m) /\ m.by = "encoder_callback"

EventOdoms == SelectSeq(out, IsEventOdom)

\* A step in which encoder_callback handles the oldest queued message and
\* returns.
CallbackStep == pc = "spin" /\ queue # <<>> /\ queue' = Tail(queue) /\ pc' = "spin"

\* A step of the watchdog check that publishes.
WatchdogPublishStep == pc = "watchdog" /\ out' # out

\* C11: every encoder message handled gets exactly one absolute count and
\* exactly one estimate, the count right before the estimate; an estimate is
\* published only by encoder_callback handling a message or by a watchdog
\* check, one at a time.
C11_OnePairPerEvent ==
  /\ [](/\ Len(Abss) = handled
        /\ Len(EventOdoms) = handled
        /\ \A k \in 1..Len(EventOdoms) : EventOdoms[k].ev = Abss[k].ev
        /\ \A i \in 1..Len(out) :
             /\ IsAbs(out[i]) =>
                  i < Len(out) /\ IsEventOdom(out[i + 1]) /\ out[i + 1].ev = out[i].ev
             /\ IsEventOdom(out[i]) => i > 1 /\ IsAbs(out[i - 1])
             /\ IsOdom(out[i]) => out[i].by \in {"encoder_callback", "main"})
  /\ [][/\ CallbackStep =>
             /\ Len(out') = Len(out) + 2
             /\ SubSeq(out', 1, Len(out)) = out
             /\ IsAbs(out'[Len(out) + 1]) /\ out'[Len(out) + 1].ev = Head(queue)
             /\ IsEventOdom(out'[Len(out) + 2]) /\ out'[Len(out) + 2].ev = Head(queue)
        /\ out' # out => (CallbackStep \/ WatchdogPublishStep)
        /\ WatchdogPublishStep =>
             /\ Len(out') = Len(out) + 1
             /\ SubSeq(out', 1, Len(out)) = out
             /\ IsOdom(out'[Len(out')]) /\ out'[Len(out')].by = "main"]_vars

\* Two encoder messages have been handled and the watchdog has published
\* between them.
C11_Witness ==
  /\ handled = 2
  /\ Len(out) = 5
  /\ IsAbs(out[1]) /\ IsEventOdom(out[2])
  /\ IsZeroEstimate(out[3])
  /\ IsAbs(out[4]) /\ IsEventOdom(out[5])
  /\ out[4].ev # out[1].ev

\* last_publish_time as the latest estimate left it.
LastLpt == IF Odoms = <<>> THEN 0 ELSE Latest.lpt

\* C12: encoder_callback and the watchdog check never interleave.  A
\* publishing watchdog check runs with no callback pending in spinOnce,
\* compares the clock with the last_publish_time that the latest estimate
\* (of either kind) left, and touches neither the queue nor the count; a
\* callback's count and estimate come out together, with nothing of the
\* watchdog in between, and carry the last_publish_time the callback set.
C12_HandlersDoNotInterleave ==
  [][/\ WatchdogPublishStep =>
          /\ queue = <<>> /\ queue' = queue
          /\ handled' = handled /\ encoder_abs' = encoder_abs
          /\ last_publish_time = LastLpt
          /\ now - LastLpt > deadline_timeout
          /\ last_publish_time' = now
          /\ Latest'.lpt = now
     /\ CallbackStep =>
          /\ pc # "watchdog"
          /\ Len(out') = Len(out) + 2
          /\ out'[Len(out) + 1].lpt = last_publish_time'
          /\ out'[Len(out) + 2].lpt = last_publish_time'
          /\ out'[Len(out) + 1].by = "encoder_callback"
          /\ out'[Len(out) + 2].by = "encoder_callback"
          /\ last_publish_time' = now]_vars

\* An encoder message was handled when the clock read more than
\* deadline_timeout, and the watchdog check of the same iteration, which
\* found the last_publish_time of that message, published nothing.
C12_Witness ==
  /\ FromStartup
  /\ Len(out) = 2
  /\ IsEventOdom(out[2])
  /\ out[2].lpt > deadline_timeout
  /\ deadline_timeout > 0
  /\ idle
  /\ pc = "loop"
  /\ now = out[2].lpt

\* C13: the template twist is reused, but every watchdog-triggered estimate
\* carries linear.x = 0 and every event-triggered estimate the velocity of
\* its own encoder message, (ticks / ticks_per_meter) / (duration / 10^6),
\* whatever was published before it.
C13_NoLeftoverVelocity ==
  \A i \in 1..Len(Odoms) :
    LET m == Odoms[i]
    IN  /\ m.by = "main" => m.msg.linear.x = Zero
        /\ m.by = "encoder_callback" =>
             m.msg.linear.x =
               DDiv(DDiv(ToDouble(m.ev.encoder_ticks), ToDouble(ticks_per_meter)),
                    DDiv(ToDouble(m.ev.duration), ToDouble(1000000)))

\* A nonzero estimate, then the watchdog's zero, then an estimate with
\* another nonzero velocity.
C13_Witness ==
  /\ Len(Odoms) = 3
  /\ Odoms[1].by = "encoder_callback" /\ ~IsZero(Odoms[1].msg.linear.x)
  /\ Odoms[2].by = "main" /\ IsZero(Odoms[2].msg.linear.x)
  /\ Odoms[3].by = "encoder_callback" /\ ~IsZero(Odoms[3].msg.linear.x)
  /\ Odoms[3].msg.linear.x # Odoms[1].msg.linear.x

\* C14: a watchdog check publishes exactly when the clock it reads is more
\* than deadline_timeout past last_publish_time; at a difference less than
\* or equal to deadline_timeout it publishes nothing and leaves
\* last_publish_time, the template (header.seq included) and encoder_abs
\* unchanged.
C14_FiresOnlyPastDeadline ==
  [][pc = "watchdog" =>
       IF now - last_publish_time > deadline_timeout
       THEN /\ Len(Odoms') = Len(Odoms) + 1
            /\ Latest'.by = "main"
       ELSE /\ out' = out
            /\ last_publish_time' = last_publish_time
            /\ twist' = twist
            /\ encoder_abs' = encoder_abs]_vars

\* A check made exactly deadline_timeout after the last publish has
\* published nothing.
C14_Witness ==
  /\ pc = "loop"
  /\ idle
  /\ Odoms # <<>>
  /\ deadline_timeout > 0
  /\ now - last_publish_time = deadline_timeout
  /\ last_publish_time = Latest.lpt

\* C15: a step that publishes an estimate, from an encoder message or from
\* a timeout, sets last_publish_time to the clock it read, and a step that
\* publishes no estimate leaves last_publish_time as it was (a callback
\* that the overflow of line 52 traps ends the process, and with it
\* last_publish_time).
C15_ClockFollowsPublish ==
  [][/\ Len(Odoms') > Len(Odoms) =>
          /\ last_publish_time' = now
          /\ Latest'.lpt = last_publish_time'
     /\ (last_publish_time' # last_publish_time /\ pc' # "aborted") =>
          Len(Odoms') = Len(Odoms) + 1]_vars

\* An encoder message and a timeout have each published and moved
\* last_publish_time.
C15_Witness ==
  /\ Len(Odoms) = 2
  /\ Odoms[1].by # Odoms[2].by
  /\ 0 < Odoms[1].lpt
  /\ Odoms[1].lpt < Odoms[2].lpt
  /\ last_publish_time = Odoms[2].lpt

\* C16: in every published estimate linear y, z and angular x, y, z are 0
\* and frame_id is the configured frame_id; of the twist only linear.x
\* differs between estimates.
C16_OnlyLinearXVaries ==
  \A i \in 1..Len(Odoms) :
    LET m == Odoms[i].msg
    IN  /\ m.linear.y = Zero /\ m.linear.z = Zero
        /\ m.angular = [x |-> Zero, y |-> Zero, z |-> Zero]
        /\ m.frame_id = params.frame_id
        /\ \A j \in 1..Len(Odoms) :
             [m EXCEPT !.linear.x = Zero, !.stamp = Time(0), !.seq = W(0)]
               = [Odoms[j].msg EXCEPT !.linear.x = Zero, !.stamp = Time(0),
                                      !.seq = W(0)]

\* With frame_id "odom" configured, an event-triggered estimate with a
\* nonzero velocity and a watchdog-triggered one have been published.
C16_Witness ==
  /\ params.frame_id = "odom"
  /\ \E i, j \in 1..Len(Odoms) :
       /\ Odoms[i].by = "encoder_callback" /\ ~IsZero(Odoms[i].msg.linear.x)
       /\ Odoms[j].by = "main" /\ i < j

\* a - b on wide numbers, for a >= b
WSub(a, b) ==
  IF a.lo >= b.lo THEN [hi |-> a.hi - b.hi, lo |-> a.lo - b.lo]
  ELSE [hi |-> a.hi - b.hi - 1, lo |-> a.lo + 65536 - b.lo]

\* Number of estimates published before the first one of out.
Base == WSub(published, W(Len(Odoms)))

\* C17: header.seq goes up by exactly 1, modulo 2^32, with each published
\* estimate and with nothing else: the k-th estimate since startup carries
\* k mod 2^32, the first one 1, and while the node runs the template's seq
\* is the number of estimates published, modulo 2^32.
C17_SeqCountsEstimates ==
  /\ [](/\ \A i \in 1..Len(Odoms) :
             Odoms[i].msg.seq = U32Mod(WAdd(Base, W(i)))
        /\ (Base = W(0) /\ Odoms # <<>>) => Odoms[1].msg.seq = W(1)
        /\ pc # "aborted" => twist.seq = U32Mod(published))
  /\ [][/\ Len(Odoms') > Len(Odoms) =>
             /\ Len(Odoms') = Len(Odoms) + 1
             /\ published' = WAdd(published, W(1))
             /\ Latest'.msg.seq = U32Mod(published')
        /\ (twist'.seq # twist.seq /\ pc' # "aborted") =>
             Len(Odoms') = Len(Odoms) + 1]_vars

\* Three estimates have been published across the wrap: they carry
\* 2^32 - 1, 0 and 1.
C17_Witness ==
  /\ Len(Odoms) = 3
  /\ Odoms[1].msg.seq = U32Max
  /\ Odoms[2].msg.seq = W(0)
  /\ Odoms[3].msg.seq = W(1)
  /\ published = [hi |-> 65536, lo |-> 1]

\* The first watchdog check after startup, with no encoder message handled
\* before it.
FirstCheck == FromStartup /\ pc = "watchdog" /\ ~idle /\ out = <<>>

\* C18: last_publish_time starts at 0, not at the startup time, so the
\* first watchdog check after startup publishes whenever the clock reads
\* more than deadline_timeout: unless an encoder message was handled in the
\* first spinOnce, a zero-velocity estimate is then the first message
\* published, before any encoder message has been handled.
C18_FirstCheckFires ==
  [][FirstCheck =>
       /\ last_publish_time = 0
       /\ handled = 0
       /\ IF now > deadline_timeout
          THEN /\ Len(out') = 1
               /\ IsZeroEstimate(out'[1])
               /\ out'[1].msg.seq = W(1)
               /\ handled' = 0
          ELSE out' = out]_vars

\* The first check has fired with no encoder message handled, and a message
\* sent later has been handled after it.
C18_Witness ==
  /\ FromStartup
  /\ deadline_timeout > 0
  /\ Len(out) = 3
  /\ IsZeroEstimate(out[1])
  /\ out[1].lpt > deadline_timeout
  /\ IsAbs(out[2])
  /\ IsEventOdom(out[3])

\* C19 as claimed: right after an estimate is published, by encoder_callback
\* or by the watchdog, its header stamp equals last_publish_time.
C19_StampIsLastPublishTime ==
  [][Len(Odoms') > Len(Odoms) =>
       toSec(Latest'.msg.stamp) = last_publish_time']_vars

\* C19: right after encoder_callback publishes an estimate, its header stamp
\* equals last_publish_time (one clock reading); right after the watchdog
\* publishes one, last_publish_time is the reading of the comparison and the
\* header stamp is a second, later reading, equal to it or past it.
C19_StampNotBeforeLastPublishTime ==
  [][Len(Odoms') > Len(Odoms) =>
       IF Latest'.by = "encoder_callback"
       THEN /\ toSec(Latest'.msg.stamp) = last_publish_time'
            /\ Latest'.msg.stamp = Time(now)
       ELSE /\ last_publish_time' = now
            /\ Latest'.msg.stamp = Time(now')
            /\ last_publish_time' <= toSec(Latest'.msg.stamp)]_vars

\* The watchdog has published an estimate stamped later than the
\* last_publish_time it set, after an event-triggered estimate stamped with
\* its last_publish_time.
C19_Witness ==
  /\ Len(Odoms) = 2
  /\ Odoms[1].by = "encoder_callback"
  /\ toSec(Odoms[1].msg.stamp) = Odoms[1].lpt
  /\ Odoms[2].by = "main"
  /\ toSec(Odoms[2].msg.stamp) > Odoms[2].lpt
  /\ last_publish_time = Odoms[2].lpt

====
